---- MODULE Spec2Model ----
(***************************************************************************)
(* Model of the retrieval core of Wispen:                                  *)
(*   - BookshelfRAG (src/chatbot_enhanced.py): extract_text, the           *)
(*     background extraction worker and the hybrid search with its         *)
(*     fallback scan over the class-level caches;                          *)
(*   - OpenSearchManager (src/backend/opensearch_client.py): the index     *)
(*     gateway, together with the behaviour of the index service that its  *)
(*     requests rely on;                                                   *)
(*   - sync_data (src/backend/sync_firebase_opensearch.py): the script     *)
(*     that chunks the stored bookshelf items into the index.              *)
(* Characters are naturals, strings are sequences of characters.           *)
(***************************************************************************)
EXTENDS Integers, Sequences, FiniteSets, TLC

\* ------------------------------------------------------------------------
\* Characters and strings
\* ------------------------------------------------------------------------
SP == 0
NL == 1
NoteMark == 2
EmOpen == 3
EmClose == 4
UpperBase == 1000

None == "None"

IsSpace(c) == c \in {SP, NL}

\* str.lower() on one character: an upper-case letter maps to its lower-case
\* twin, everything else is left alone.
Lower(c) == IF c >= UpperBase THEN c - UpperBase ELSE c

LowerText(s) == [i \in 1..Len(s) |-> Lower(s[i])]

Min(a, b) == IF a < b THEN a ELSE b

RECURSIVE SplitFrom(_, _, _)
SplitFrom(s, i, cur) ==
  IF i > Len(s)
  THEN IF cur = <<>> THEN <<>> ELSE <<cur>>
  ELSE IF IsSpace(s[i])
       THEN IF cur = <<>> THEN SplitFrom(s, i + 1, <<>>)
            ELSE <<cur>> \o SplitFrom(s, i + 1, <<>>)
       ELSE SplitFrom(s, i + 1, Append(cur, s[i]))

\* str.split(): the maximal runs of non-whitespace characters, in order.
Split(s) == SplitFrom(s, 1, <<>>)

SeqToSet(q) == {q[i] : i \in 1..Len(q)}

\* `term in text` for strings.
Contains(text, term) ==
  LET n == Len(term)
  IN \E i \in 1..(Len(text) - n + 1) :
       /\ n > 0 => text[i] = term[1]
       /\ \A j \in 2..n : text[i + j - 1] = term[j]

\* text[a:b] with 0-based Python slice indices, 0 <= a.
Slice(text, a, b) == SubSeq(text, a + 1, Min(b, Len(text)))

\* ------------------------------------------------------------------------
\* The record store: users and their bookshelf items
\* ------------------------------------------------------------------------
Users == {"A", "B"}

\* Number of pages of the long PDF (more than initial_limit, so that page
\* 80 exists) and of the short one.
LongPages == 81
ShortPages == 2

DocIds == {"d1", "d2", "d3", "d4", "d5", "d6", "d7"}

\* Bookshelf items as stored under users/{uid}/bookshelf; ids are the
\* store's auto-generated document ids, unique across users.
\*   src = "content"    : embedded base64 content (decodable or not)
\*   src = "storageUrl" : bytes fetched over HTTP, which may fail
\*   kind               : what the bytes really are
\*   titlePdf           : 'pdf' occurs in the lower-cased title
Item(d) ==
  CASE d = "d1" -> [id |-> "d1", owner |-> "A", fileType |-> "pdf",
                    title |-> "Calculus", titlePdf |-> FALSE,
                    src |-> "content", decodable |-> TRUE, kind |-> "pdf",
                    pages |-> LongPages, base |-> 100]
    [] d = "d2" -> [id |-> "d2", owner |-> "A", fileType |-> "application/pdf",
                    title |-> "notes.pdf", titlePdf |-> TRUE,
                    src |-> "storageUrl", decodable |-> TRUE, kind |-> "pdf",
                    pages |-> ShortPages, base |-> 200]
    [] d = "d3" -> [id |-> "d3", owner |-> "B", fileType |-> "text",
                    title |-> "Essay", titlePdf |-> FALSE,
                    src |-> "content", decodable |-> TRUE, kind |-> "text",
                    pages |-> 26, base |-> 300]
    [] d = "d4" -> [id |-> "d4", owner |-> "B", fileType |-> "pdf",
                    title |-> "Scan", titlePdf |-> FALSE,
                    src |-> "content", decodable |-> TRUE, kind |-> "corrupt",
                    pages |-> 0, base |-> 400]
    [] d = "d5" -> [id |-> "d5", owner |-> "A", fileType |-> "text",
                    title |-> "Broken", titlePdf |-> FALSE,
                    src |-> "content", decodable |-> FALSE, kind |-> "text",
                    pages |-> 26, base |-> 500]
    [] d = "d6" -> [id |-> "d6", owner |-> "B", fileType |-> "text",
                    title |-> "summary.pdf", titlePdf |-> TRUE,
                    src |-> "content", decodable |-> TRUE, kind |-> "text",
                    pages |-> 26, base |-> 700]
    [] d = "d7" -> [id |-> "d7", owner |-> "A", fileType |-> "pdf",
                    title |-> "Atlas", titlePdf |-> FALSE,
                    src |-> "content", decodable |-> TRUE, kind |-> "pdf",
                    pages |-> 55, base |-> 800]

\* The character that page p (0-based) of document d consists of.
PageChar(d, p) == Item(d).base + p

\* page.extract_text() of page p; the odd pages of every PDF are blank.
PageText(d, p) == IF p % 2 = 1 THEN <<>> ELSE <<PageChar(d, p)>>

\* The decoded content of a text document: `pages` words separated by
\* blanks, the first one capitalised.
RECURSIVE PlainText(_, _)
PlainText(d, n) ==
  IF n = 0 THEN <<>>
  ELSE PlainText(d, n - 1) \o
       (IF n = 1 THEN <<UpperBase + PageChar(d, 0)>> ELSE <<SP, PageChar(d, n - 1)>>)

\* What decoding the raw bytes of d as utf-8/latin-1 gives.
Decode(d) ==
  IF Item(d).kind = "text" THEN PlainText(d, Item(d).pages)
  ELSE <<Item(d).base + 99>>

DOCUMENT_PROCESSING_AVAILABLE == TRUE
OPENSEARCH_AVAILABLE == TRUE

PdfUnavailableText == <<NoteMark, NoteMark>>

\* The pages (0-based) on which page.extract_text() raises: page 53 of d7.
BadPages(d) == IF d = "d7" THEN {53} ELSE {}

\* The loop of lines 55-59 meets a page that raises.
PageRaises(d, start_page, end_page) ==
  \E p \in BadPages(d) : start_page <= p /\ p < end_page

RECURSIVE PdfPages(_, _, _)
PdfPages(d, i, end_page) ==
  IF i >= end_page THEN <<>>
  ELSE (IF PageText(d, i) # <<>> THEN PageText(d, i) \o <<NL>> ELSE <<>>)
       \o PdfPages(d, i + 1, end_page)

\* BookshelfRAG.extract_text(file_bytes of d, file_type, start_page, max_pages);
\* An extraction that raises when the range starts past the last page.
extract_text_strict(d, file_type, start_page, max_pages) ==
  IF file_type \in {"pdf", "application/pdf"}
  THEN IF Item(d).kind # "pdf"
       THEN [raised |-> FALSE, text |-> <<>>]
       ELSE IF start_page > Item(d).pages
            THEN [raised |-> TRUE, text |-> <<>>]
            ELSE [raised |-> FALSE,
                  text |-> PdfPages(d, start_page,
                                    IF max_pages # 0
                                    THEN Min(start_page + max_pages, Item(d).pages)
                                    ELSE Item(d).pages)]
  ELSE [raised |-> FALSE, text |-> Decode(d)]

\* max_pages = 0 stands for None.  The result is a record: raised is TRUE
\* when the call would raise to its caller (it never does: both try blocks
\* catch Exception).  A page that raises inside the loop is caught by the
\* except clause of line 63, which returns "".
extract_text(d, file_type, start_page, max_pages) ==
  IF file_type \in {"pdf", "application/pdf"}
  THEN IF ~DOCUMENT_PROCESSING_AVAILABLE
       THEN [raised |-> FALSE, text |-> PdfUnavailableText]
       ELSE IF Item(d).kind # "pdf"
            THEN [raised |-> FALSE, text |-> <<>>]
            ELSE LET total_pages == Item(d).pages
                     end_page == IF max_pages # 0
                                 THEN Min(start_page + max_pages, total_pages)
                                 ELSE total_pages
                 IN IF PageRaises(d, start_page, end_page)
                    THEN [raised |-> FALSE, text |-> <<>>]
                    ELSE [raised |-> FALSE, text |-> PdfPages(d, start_page, end_page)]
  ELSE [raised |-> FALSE, text |-> Decode(d)]

\* ------------------------------------------------------------------------
\* State
\* ------------------------------------------------------------------------
VARIABLES
  text_cache,         \* BookshelfRAG._text_cache: item id -> text
  extraction_status,  \* BookshelfRAG._extraction_status: item id -> status
  workers,            \* the _background_extract_worker threads started so far
  calls,              \* per request thread: the BookshelfRAG.search call it runs
  callsMade,          \* number of search calls started
  manager,            \* TRUE once an OpenSearchManager has been constructed
  indexExists,        \* the 'bookshelf' index exists on the service
  mapping,            \* how its fields are mapped: "explicit" | "dynamic"
  indexDocs,          \* id -> document body, as the service stores them
  searchable,         \* the documents visible to search (as of the last refresh)
  lastIndexed,        \* id written by the index_document call that just returned
  lastOp,             \* the last OpenSearchManager call and what it returned
  sync,               \* the sync_data run: its position and local variables
  shelf,              \* the bookshelf store of app.py and its indexing threads
  gemini,             \* the APIKeyManager and the call_gemini_with_retry call
  memory              \* the student_profile/memory record and its update threads

vars == <<text_cache, extraction_status, workers, calls, callsMade,
          manager, indexExists, mapping, indexDocs, searchable, lastIndexed, lastOp,
          sync, shelf, gemini, memory>>

ragVars == <<text_cache, extraction_status, workers, calls, callsMade>>
indexVars == <<manager, indexExists, mapping, indexDocs, searchable, lastIndexed, lastOp>>
syncVars == <<sync>>
appVars == <<shelf, gemini, memory>>
keyVars == <<shelf, memory>>
memoryVars == <<shelf, gemini>>

\* ------------------------------------------------------------------------
\* The index service and OpenSearchManager
\* ------------------------------------------------------------------------
Common == 50
WTable == 20
WOf == 21
WContents == 22

\* "Table of Contents", the text of the title boost.
TocTitleQuery == <<UpperBase + WTable, SP, WOf, SP, UpperBase + WContents>>

IndexIds == {"d1_chunk_0", "d1_toc", "d3_chunk_0"}

\* The chunk bodies written to the index (sync_data / background_index_task
\* build them; only the fields the search request looks at are kept).
Body(id) ==
  CASE id = "d1_chunk_0" ->
         [user_id |-> "A", file_type |-> "pdf", title |-> <<PageChar("d1", 0)>>,
          content |-> <<PageChar("d1", 0), NL, UpperBase + Common, NL>>]
    [] id = "d1_toc" ->
         [user_id |-> "A", file_type |-> "toc",
          title |-> <<PageChar("d1", 0), SP, UpperBase + WTable, SP, WOf, SP, UpperBase + WContents>>,
          content |-> <<UpperBase + WTable, SP, WOf, SP, UpperBase + WContents, NL, PageChar("d1", 0), NL>>]
    [] id = "d3_chunk_0" ->
         [user_id |-> "B", file_type |-> "text", title |-> <<PageChar("d3", 0)>>,
          content |-> <<Common, SP, Common, SP, PageChar("d1", 0), SP, PageChar("d3", 0)>>]

\* The analysed tokens of a text field (lower-cased words).
Analyze(s) == SeqToSet(Split(LowerText(s)))

\* {"match": {field: query}}: some token of the query is a token of the field.
MatchText(field, query) == Analyze(field) \cap Analyze(query) # {}

\* Whether the index has a sub-field <name>.keyword: only dynamically mapped
\* string fields get one; the explicit mapping of create_index_if_not_exists
\* declares user_id and file_type as plain keyword fields.
HasKeywordSubfield(m) == m = "dynamic"

\* The user_id clause as a filter that forgets to compare the owner.
TermUserIdNoOwner(m, doc, user_id) == HasKeywordSubfield(m)

\* {"term": {"user_id.keyword": user_id}}
TermUserId(m, doc, user_id) == HasKeywordSubfield(m) /\ doc.user_id = user_id

\* The must clauses of OpenSearchManager.search.
MustMatch(m, doc, query, user_id) ==
  MatchText(doc.content, query) /\ TermUserId(m, doc, user_id)

\* Relevance: matched query tokens plus the two should-boosts.
HitScore(m, doc, query) ==
  Cardinality(Analyze(doc.content) \cap Analyze(query))
  + (IF HasKeywordSubfield(m) /\ doc.file_type = "toc" THEN 3 ELSE 0)
  + (IF MatchText(doc.title, TocTitleQuery) THEN 2 ELSE 0)

RECURSIVE HighlightFrom(_, _, _, _)
HighlightFrom(s, i, cur, qterms) ==
  LET flush == IF cur = <<>> THEN <<>>
               ELSE IF LowerText(cur) \in qterms
                    THEN <<EmOpen>> \o cur \o <<EmClose>>
                    ELSE cur
  IN IF i > Len(s) THEN flush
     ELSE IF IsSpace(s[i])
          THEN flush \o <<s[i]>> \o HighlightFrom(s, i + 1, <<>>, qterms)
          ELSE HighlightFrom(s, i + 1, Append(cur, s[i]), qterms)

\* The highlight fragment of the content field: matched words wrapped in
\* <em> ... </em>.
Highlight(content, query) == HighlightFrom(content, 1, <<>>, Analyze(query))

\* One entry of the result list built by OpenSearchManager.search.
Hit(id, m, doc, query) ==
  LET highlight == IF MatchText(doc.content, query)
                   THEN <<Highlight(doc.content, query)>> ELSE <<>>
  IN [id |-> id,
      score |-> HitScore(m, doc, query),
      title |-> doc.title,
      content |-> IF highlight # <<>> THEN highlight[1] ELSE Slice(doc.content, 0, 200),
      full_content |-> doc.content,
      source |-> doc.title]

Matching(m, docs, query, user_id) ==
  {id \in DOMAIN docs : MustMatch(m, docs[id], query, user_id)}

\* The id lists the service may answer with: `size` matching documents at
\* most, by non-increasing score, ties in any order.
TopIdLists(m, docs, query, user_id, size) ==
  LET M == Matching(m, docs, query, user_id)
      n == Min(size, Cardinality(M))
      sc(id) == HitScore(m, docs[id], query)
  IN {h \in [1..n -> M] :
        /\ \A i, j \in 1..n : i < j => h[i] # h[j] /\ sc(h[i]) >= sc(h[j])
        /\ \A id \in M : (\A i \in 1..n : h[i] # id) =>
                          \A i \in 1..n : sc(h[i]) >= sc(id)}

\* OpenSearchManager.search: the result lists it may return when the request
\* succeeds.
SearchResults(m, docs, query, user_id, top_k) ==
  {[i \in 1..Len(h) |-> Hit(h[i], m, docs[h[i]], query)] :
     h \in TopIdLists(m, docs, query, user_id, top_k)}

\* Dictionaries with a varying key set.
EmptyMap == [k \in {} |-> None]
Put(f, k, v) == [x \in (DOMAIN f) \cup {k} |-> IF x = k THEN v ELSE f[x]]
Remove(f, k) == [x \in (DOMAIN f) \ {k} |-> f[x]]

\* The queries callers ask.
Q1 == <<UpperBase + PageChar("d1", 4), SP, PageChar("d2", 0), SP, Common>>
Q2 == <<PageChar("d1", 80), SP, PageChar("d3", 5)>>
QToc == <<PageChar("d1", 0)>>
EmptyQuery == <<>>

IndexQueries == {Q1, QToc}
TopKs == {1, 2}

\* OpenSearchManager.__init__ -> create_index_if_not_exists: creates the
\* index with the explicit mapping unless it already exists.
CreateIndexIfNotExists ==
  /\ manager' = TRUE
  /\ IF ~indexExists
     THEN /\ indexExists' = TRUE
          /\ mapping' = "explicit"
          /\ indexDocs' = EmptyMap
          /\ searchable' = EmptyMap
     ELSE UNCHANGED <<indexExists, mapping, indexDocs, searchable>>
  /\ lastIndexed' = None
  /\ lastOp' = [op |-> "create"]
  /\ UNCHANGED <<ragVars, syncVars, appVars>>

\* clear_index.py: another process drops the index.
ClearIndex ==
  /\ indexExists
  /\ indexExists' = FALSE
  /\ indexDocs' = EmptyMap
  /\ searchable' = EmptyMap
  /\ lastIndexed' = None
  /\ lastOp' = [op |-> "clear"]
  /\ UNCHANGED <<manager, mapping>>
  /\ UNCHANGED <<ragVars, syncVars, appVars>>

\* The service's periodic refresh makes pending changes visible to search.
Refresh ==
  /\ indexExists
  /\ searchable # indexDocs
  /\ searchable' = indexDocs
  /\ UNCHANGED <<manager, indexExists, mapping, indexDocs, lastIndexed, lastOp>>
  /\ UNCHANGED <<ragVars, syncVars, appVars>>

\* index_document passes refresh=True: the write is searchable on return.
RefreshOnWrite == TRUE

\* OpenSearchManager.index_document(doc_id, document).  A transport error
\* raises to the caller and writes nothing; writing to a missing index
\* creates it with dynamically derived mappings.
IndexDocument(doc_id, up) ==
  /\ manager
  /\ IF up
     THEN /\ indexExists' = TRUE
          /\ mapping' = IF indexExists THEN mapping ELSE "dynamic"
          /\ indexDocs' = Put(indexDocs, doc_id, Body(doc_id))
          /\ searchable' = IF RefreshOnWrite THEN indexDocs' ELSE searchable
          /\ lastIndexed' = doc_id
          /\ lastOp' = [op |-> "index", id |-> doc_id, ok |-> TRUE]
     ELSE /\ lastIndexed' = None
          /\ lastOp' = [op |-> "index", id |-> doc_id, ok |-> FALSE]
          /\ UNCHANGED <<indexExists, mapping, indexDocs, searchable>>
  /\ UNCHANGED manager
  /\ UNCHANGED <<ragVars, syncVars, appVars>>

\* client.delete(index, id) raises on a transport error, on a missing index
\* and (NotFoundError) on an id the index does not hold.
ClientDeleteRaises(doc_id, up) ==
  ~up \/ ~indexExists \/ doc_id \notin DOMAIN indexDocs

\* What client.delete raised, if anything.
DeleteError(doc_id, up) ==
  IF ~up THEN "transport"
  ELSE IF ~indexExists \/ doc_id \notin DOMAIN indexDocs THEN "not_found"
  ELSE None

\* A handler that catches the not-found error only.
DeleteCatchesNotFoundOnly(error) == error = "not_found"

\* `except Exception as e:` of delete_document catches every error.
DeleteCatches(error) == TRUE

\* OpenSearchManager.delete_document(doc_id): True when client.delete
\* returned, False when it raised.
DeleteDocument(doc_id, up) ==
  /\ manager
  /\ LET raised == ClientDeleteRaises(doc_id, up)
     IN /\ indexDocs' = IF raised THEN indexDocs ELSE Remove(indexDocs, doc_id)
        /\ lastOp' = [op |-> "delete", id |-> doc_id, up |-> up,
                      present |-> indexExists /\ doc_id \in DOMAIN indexDocs,
                      again |-> lastOp.op = "delete" /\ lastOp.id = doc_id /\ lastOp.result,
                      before |-> indexDocs,
                      error |-> DeleteError(doc_id, up),
                      escaped |-> raised /\ ~DeleteCatches(DeleteError(doc_id, up)),
                      result |-> ~raised]
  /\ lastIndexed' = None
  /\ UNCHANGED <<manager, indexExists, mapping, searchable>>
  /\ UNCHANGED <<ragVars, syncVars, appVars>>

\* The bookshelf items the DELETE handlers are asked to delete.
HandlerItemIds == {"d1", "d3"}

\* handle_bookshelf_item / handle_session_bookshelf_item, DELETE: the record
\* is deleted from the store (storeUp: the store answers), then, with a
\* manager, delete_document(item_id) is called and its value ignored; any
\* exception inside the try block answers 500.
HandleDelete(item_id, storeUp, up) ==
  LET called == storeUp /\ manager
      raised == called /\ ClientDeleteRaises(item_id, up)
      error == IF called THEN DeleteError(item_id, up) ELSE None
      escaped == raised /\ ~DeleteCatches(error)
  IN
  /\ indexDocs' = IF called /\ ~raised THEN Remove(indexDocs, item_id) ELSE indexDocs
  /\ lastOp' = [op |-> "handle_delete", id |-> item_id, up |-> up,
                stored |-> storeUp, called |-> called, error |-> error,
                escaped |-> escaped, result |-> called /\ ~raised,
                response |-> IF storeUp /\ ~escaped THEN "Deleted" ELSE "error"]
  /\ lastIndexed' = None
  /\ UNCHANGED <<manager, indexExists, mapping, searchable>>
  /\ UNCHANGED <<ragVars, syncVars, appVars>>

\* OpenSearchManager.search(query, user_id, top_k) called directly (as
\* verify_opensearch.py does); raises on a transport error or a missing index.
ManagerSearch(query, user_id, top_k, up) ==
  /\ manager
  /\ IF up /\ indexExists
     THEN \E results \in SearchResults(mapping, searchable, query, user_id, top_k) :
            lastOp' = [op |-> "search", query |-> query, user_id |-> user_id,
                       top_k |-> top_k, ok |-> TRUE, hits |-> results,
                       after |-> lastIndexed]
     ELSE lastOp' = [op |-> "search", query |-> query, user_id |-> user_id,
                     top_k |-> top_k, ok |-> FALSE, hits |-> <<>>,
                     after |-> lastIndexed]
  /\ lastIndexed' = None
  /\ UNCHANGED <<manager, indexExists, mapping, indexDocs, searchable>>
  /\ UNCHANGED <<ragVars, syncVars, appVars>>

\* No sync_data run is in progress.
NoSync == [pc |-> "idle"]

\* The handlers of app.py are not part of the run.
NoShelf == [items |-> {}]
NoGemini == [pc |-> "none"]
NoMemory == [pc |-> "none"]
InitApp == shelf = NoShelf /\ gemini = NoGemini /\ memory = NoMemory

InitRag ==
  /\ text_cache = EmptyMap
  /\ extraction_status = EmptyMap
  /\ workers = <<>>
  /\ callsMade = 0

\* A fresh service: no index, no manager constructed yet.
InitIndex ==
  /\ InitRag
  /\ calls = <<>>
  /\ manager = FALSE
  /\ indexExists = FALSE
  /\ mapping = "explicit"
  /\ indexDocs = EmptyMap
  /\ searchable = EmptyMap
  /\ lastIndexed = None
  /\ lastOp = [op |-> "none"]
  /\ sync = NoSync
  /\ InitApp

NextIndex ==
  \/ CreateIndexIfNotExists
  \/ ClearIndex
  \/ Refresh
  \/ \E doc_id \in IndexIds, up \in BOOLEAN : IndexDocument(doc_id, up)
  \/ \E doc_id \in IndexIds, up \in BOOLEAN : DeleteDocument(doc_id, up)
  \/ \E item_id \in HandlerItemIds, storeUp \in BOOLEAN, up \in BOOLEAN :
       HandleDelete(item_id, storeUp, up)
  \/ \E query \in IndexQueries, user_id \in Users, top_k \in TopKs, up \in BOOLEAN :
       ManagerSearch(query, user_id, top_k, up)

SpecIndex == InitIndex /\ [][NextIndex]_vars

\* ------------------------------------------------------------------------
\* Properties of the index gateway (checked under SpecIndex)
\* ------------------------------------------------------------------------

\* The chunks of user_id, other than id, whose content lexically matches.
OtherMatches(id, query, user_id) ==
  {o \in (DOMAIN indexDocs) \ {id} :
     indexDocs[o].user_id = user_id /\ MatchText(indexDocs[o].content, query)}

\* A search that directly follows a successful index_document of a chunk of
\* the searching user that matches the query, with room left in top_k.
SearchAfterIndex ==
  /\ lastOp.op = "search"
  /\ lastOp.ok
  /\ lastOp.after # None
  /\ indexDocs[lastOp.after].user_id = lastOp.user_id
  /\ MatchText(indexDocs[lastOp.after].content, lastOp.query)
  /\ Cardinality(OtherMatches(lastOp.after, lastOp.query, lastOp.user_id)) < lastOp.top_k

HitIds(hits) == {hits[i].id : i \in 1..Len(hits)}

\* C9: on the index created by create_index_if_not_exists, a chunk written
\* by index_document for user U that matches q is among the hits of the next
\* search(q, U, topK), when fewer than topK other chunks of U match.
C9_WriteVisibleToNextSearch ==
  (SearchAfterIndex /\ mapping = "explicit") => lastOp.after \in HitIds(lastOp.hits)

\* C10: delete_document of an id the index does not hold returns True and
\* leaves the index as it was (so deleting twice returns True twice).
C10_DeleteAbsentReturnsTrue ==
  (lastOp.op = "delete" /\ lastOp.up /\ ~lastOp.present)
    => (lastOp.result /\ indexDocs = lastOp.before)

\* C11: delete_document never raises to its caller: whenever client.delete
\* raised, it returned False, and a DELETE handler whose store delete went
\* through answers 'Deleted' whatever delete_document met.
C11_DeleteNeverRaises ==
  /\ lastOp.op = "delete" =>
        /\ ~lastOp.escaped
        /\ lastOp.error # None => lastOp.result = FALSE
  /\ lastOp.op = "handle_delete" =>
        /\ ~lastOp.escaped
        /\ lastOp.error # None => lastOp.result = FALSE
        /\ lastOp.stored => lastOp.response = "Deleted"

\* A DELETE request during an index outage, answered 'Deleted'.
C11_Witness ==
  /\ lastOp.op = "handle_delete" /\ lastOp.called
  /\ lastOp.error = "transport" /\ lastOp.response = "Deleted"

\* ------------------------------------------------------------------------
\* BookshelfRAG.search: the request threads
\* ------------------------------------------------------------------------
Threads == {1, 2}

\* Bound on the number of search calls started in one behaviour.
MaxCalls == 2

chunk_size == 800
overlap == 150
initial_limit == 50
min_chunk_len == 50

\* " [Note: Still reading rest of book...]"
NoteText == <<SP, NoteMark>>

\* dict.get(key, default)
Get(f, k, default) == IF k \in DOMAIN f THEN f[k] ELSE default

Req(user_id, client, query, top_k, items) ==
  [user_id |-> user_id, client |-> client, query |-> query, top_k |-> top_k,
   items |-> items]

\* The search calls of the model.  Callers pass items of the calling user's
\* bookshelf, and either user_id and opensearch_client (/explain), user_id
\* alone (flashcards, mind map, chat) or no user_id.
Requests ==
  {Req("A", "manager", Q1, 2, <<"d1">>),
   Req("A", None, Q1, 2, <<"d1">>),
   Req(None, "manager", Q2, 2, <<"d1">>),
   Req("A", "manager", Q1, 2, <<"d5", "d2">>),
   Req("A", "manager", Q1, 1, <<"d5", "d1">>),
   Req("A", "manager", Q1, 1, <<>>),
   Req("B", "manager", Q1, 2, <<"d3">>),
   Req("B", None, Q2, 2, <<"d3">>),
   Req("B", "manager", Q2, 2, <<"d4">>),
   Req("B", None, Q2, 1, <<"d6">>),
   Req("A", None, Q1, 2, <<"d7">>),
   Req("B", None, EmptyQuery, 2, <<"d3">>)}

\* The calls the second request thread makes: the ones that race with a call
\* of the first thread over the same document.
ConcurrentRequests ==
  {Req("A", None, Q1, 2, <<"d1">>),
   Req(None, "manager", Q2, 2, <<"d1">>),
   Req("B", None, Q2, 2, <<"d4">>)}

RequestsOf(t) == IF t = 1 THEN Requests ELSE ConcurrentRequests

IdleCall ==
  [pc |-> "idle", user_id |-> None, client |-> None, query |-> <<>>, top_k |-> 0,
   bookshelf_items |-> <<>>, idx |-> 0, status |-> None, text |-> <<>>, win |-> 0,
   relevant_chunks |-> <<>>, outcome |-> None, result |-> <<>>,
   \* history of the call, for the properties
   path |-> None, hits |-> <<>>, indexRaised |-> FALSE, touched |-> FALSE,
   fetches |-> 0, spawned |-> 0, visited |-> 0, extracted |-> {}]

\* The query terms without the lower-casing.
query_terms_cased(query) == SeqToSet(Split(query))

\* query_terms = set(query.lower().split())
query_terms(query) == SeqToSet(Split(LowerText(query)))

\* A score that compares the window as it is cased.
ScoreCased(chunk, terms) ==
  Cardinality({term \in terms : Contains(chunk, term)})

\* The score of one window: the number of query terms it contains.
Score(chunk, terms) ==
  LET chunk_lower == LowerText(chunk)
  IN Cardinality({term \in terms : Contains(chunk_lower, term)})

RECURSIVE InsertDesc(_, _)
InsertDesc(x, sorted) ==
  IF sorted = <<>> THEN <<x>>
  ELSE IF Head(sorted).score >= x.score
       THEN <<Head(sorted)>> \o InsertDesc(x, Tail(sorted))
       ELSE <<x>> \o sorted

RECURSIVE SortDescUpTo(_, _)
SortDescUpTo(chunks, n) ==
  IF n = 0 THEN <<>> ELSE InsertDesc(chunks[n], SortDescUpTo(chunks, n - 1))

\* relevant_chunks.sort(key=score, reverse=True): stable, by descending score.
SortDesc(chunks) == SortDescUpTo(chunks, Len(chunks))

\* A result cut to top_k without the sort.
FallbackResultUnsorted(relevant_chunks, top_k) == Slice(relevant_chunks, 0, top_k)

\* What the fallback returns: sorted by score, cut to top_k.
FallbackResult(relevant_chunks, top_k) == Slice(SortDesc(relevant_chunks), 0, top_k)

\* `if OPENSEARCH_AVAILABLE and client and user_id`
UseIndex(client, user_id) == OPENSEARCH_AVAILABLE /\ client # None /\ user_id # None

\* A test that takes a single hit for no hit.
IndexHitSeveral(results) == Len(results) > 1

\* `if results: return results`
IndexHit(results) == results # <<>>

\* A handler that lets the index error through.
IndexErrorReraised == TRUE

\* The except clause around client.search prints and falls through.
IndexErrorSurfaces == FALSE

\* The guard with the test of the item list inverted.
FallbackGuardInverted(query, bookshelf_items) == query = <<>> \/ bookshelf_items # <<>>

\* `if not query or not bookshelf_items: return []`
FallbackGuard(query, bookshelf_items) == query = <<>> \/ bookshelf_items = <<>>

\* `'pdf' in file_type.lower() or 'pdf' in str(item.get('title')).lower()`
IsPdfItem(item) == item.fileType \in {"pdf", "application/pdf"} \/ item.titlePdf

\* `if not text and status != 'running'`
NeedsExtraction(text, status) == text = <<>> /\ status # "running"

\* The call is over: its local variables are gone.
Finished(c, outcome, result) ==
  [c EXCEPT !.pc = "done", !.outcome = outcome, !.result = result,
            !.idx = 0, !.status = None, !.text = <<>>, !.win = 0]

\* End of one iteration of `for item in bookshelf_items`: the next item, or
\* the sort and return after the loop.
Advance(c) ==
  IF c.idx < Len(c.bookshelf_items)
  THEN [c EXCEPT !.pc = "lookup", !.idx = c.idx + 1,
                 !.status = None, !.text = <<>>, !.win = 0]
  ELSE Finished(c, "returned", FallbackResult(c.relevant_chunks, c.top_k))

\* After the hybrid-extraction block: `if not text: continue`, else scan.
AfterExtraction(c) ==
  IF c.text = <<>> THEN Advance(c) ELSE [c EXCEPT !.pc = "scan", !.win = 0]

\* Lines 106-128: a request thread that runs no call (it is idle, or its
\* previous call is over) calls search; the index is tried first.
SearchCall(t, req, up) ==
  /\ calls[t].pc \in {"idle", "done"}
  /\ \A t2 \in Threads : t2 < t => calls[t2].pc # "idle"
  /\ callsMade < MaxCalls
  /\ callsMade' = callsMade + 1
  /\ LET user_id == req.user_id
         client == req.client
         query == req.query
         top_k == req.top_k
         items == req.items
         use == UseIndex(client, user_id)
         raised == use /\ ~(up /\ indexExists)
         c0 == [IdleCall EXCEPT !.user_id = user_id, !.client = client,
                                !.query = query, !.top_k = top_k,
                                !.bookshelf_items = items, !.indexRaised = raised]
     IN \E results \in (IF use /\ ~raised
                        THEN SearchResults(mapping, searchable, query, user_id, top_k)
                        ELSE {<<>>}) :
          LET c1 == [c0 EXCEPT !.hits = results]
          IN calls' = [calls EXCEPT ![t] =
               IF raised /\ IndexErrorSurfaces
               THEN Finished([c1 EXCEPT !.path = "index"], "raised", <<>>)
               ELSE IF use /\ ~raised /\ IndexHit(results)
               THEN Finished([c1 EXCEPT !.path = "index"], "returned", results)
               ELSE IF FallbackGuard(query, items)
               THEN Finished([c1 EXCEPT !.path = "fallback"], "returned", <<>>)
               ELSE [c1 EXCEPT !.path = "fallback", !.pc = "lookup", !.idx = 1]]
  /\ UNCHANGED <<text_cache, extraction_status, workers>>
  /\ UNCHANGED <<indexVars, syncVars, appVars>>

CurrentItem(c) == Item(c.bookshelf_items[c.idx])

\* Lines 146-152: status = _extraction_status.get(item_id) and
\* text = _text_cache.get(item_id, ""), then the decision whether to run the
\* hybrid extraction.
Lookup(t) ==
  LET c == calls[t]
      status == Get(extraction_status, CurrentItem(c).id, None)
      text == Get(text_cache, CurrentItem(c).id, <<>>)
      c1 == [c EXCEPT !.status = status, !.text = text, !.touched = TRUE,
                      !.visited = c.visited + 1]
  IN
  /\ c.pc = "lookup"
  /\ calls' = [calls EXCEPT ![t] =
       IF NeedsExtraction(text, status)
       THEN [c1 EXCEPT !.pc = "extract"]
       ELSE AfterExtraction(c1)]
  /\ UNCHANGED <<text_cache, extraction_status, workers, callsMade>>
  /\ UNCHANGED <<indexVars, syncVars, appVars>>

\* A fetch that always yields bytes.
HasBytesAlways(item, reachable) == TRUE

\* Lines 156-165: file_bytes is set when the embedded content decodes or
\* the storage URL answers 200.
HasBytes(item, reachable) ==
  IF item.src = "content" THEN item.decodable ELSE reachable

\* Lines 156-179: fetch the bytes, extract the first initial_limit pages and
\* store them in the cache.
Extract(t, reachable) ==
  LET c == calls[t]
      item == CurrentItem(c)
      initial == extract_text(item.id, item.fileType, 0, initial_limit)
      c1 == [c EXCEPT !.fetches = c.fetches + 1]
  IN
  /\ c.pc = "extract"
  /\ item.src = "content" => reachable
  /\ IF ~HasBytes(item, reachable)
     THEN /\ calls' = [calls EXCEPT ![t] = AfterExtraction(c1)]
          /\ UNCHANGED text_cache
     ELSE IF initial.raised
     THEN /\ calls' = [calls EXCEPT ![t] = Finished(c1, "raised", <<>>)]
          /\ UNCHANGED text_cache
     ELSE /\ text_cache' = Put(text_cache, item.id, initial.text)
          /\ calls' = [calls EXCEPT ![t] =
               LET c2 == [c1 EXCEPT !.text = initial.text,
                                    !.extracted = c.extracted \cup {item.id}]
               IN IF IsPdfItem(item) THEN [c2 EXCEPT !.pc = "spawn"]
                  ELSE AfterExtraction(c2)]
  /\ UNCHANGED <<extraction_status, workers, callsMade>>
  /\ UNCHANGED <<indexVars, syncVars, appVars>>

\* Lines 180-186: _extraction_status[item_id] = 'running', then the
\* background worker thread is started.
SpawnWorker(t) ==
  LET c == calls[t]
      item == CurrentItem(c)
  IN
  /\ c.pc = "spawn"
  /\ extraction_status' = Put(extraction_status, item.id, "running")
  /\ workers' = Append(workers,
       [item_id |-> item.id, file_type |-> item.fileType, start_page |-> initial_limit,
        pc |-> "extract", remaining_text |-> <<>>, old |-> <<>>])
  /\ calls' = [calls EXCEPT ![t] = AfterExtraction([c EXCEPT !.spawned = c.spawned + 1])]
  /\ UNCHANGED <<text_cache, callsMade>>
  /\ UNCHANGED <<indexVars, syncVars, appVars>>

\* Lines 195-214, one iteration: cut the window at offset win, score it and
\* keep it when it scores; the status is read again for the note.
Scan(t) ==
  LET c == calls[t]
      item == CurrentItem(c)
      chunk == Slice(c.text, c.win, c.win + chunk_size)
      score == Score(chunk, query_terms(c.query))
      note == IF Get(extraction_status, item.id, None) = "running" THEN NoteText ELSE <<>>
      kept == Len(chunk) >= min_chunk_len /\ score > 0
      c1 == [c EXCEPT !.win = c.win + (chunk_size - overlap),
                      !.relevant_chunks =
                         IF kept
                         THEN Append(c.relevant_chunks,
                                [score |-> score, content |-> chunk \o note,
                                 source |-> item.title, page |-> "N/A"])
                         ELSE c.relevant_chunks]
  IN
  /\ c.pc = "scan"
  /\ calls' = [calls EXCEPT ![t] = IF c1.win >= Len(c.text) THEN Advance(c1) ELSE c1]
  /\ UNCHANGED <<text_cache, extraction_status, workers, callsMade>>
  /\ UNCHANGED <<indexVars, syncVars, appVars>>

\* ------------------------------------------------------------------------
\* BookshelfRAG._background_extract_worker
\* ------------------------------------------------------------------------

\* The worker threads without thread w, which has ended.
Ended(w) == [i \in 1..(Len(workers) - 1) |-> IF i < w THEN workers[i] ELSE workers[i + 1]]

\* Lines 85-88: extract everything from start_page on, then look the item up
\* in the cache (the read half of `+=`).
WorkerRead(w) ==
  LET wk == workers[w]
      r == extract_text(wk.item_id, wk.file_type, wk.start_page, 0)
  IN
  /\ wk.pc = "extract"
  /\ IF r.raised
     THEN /\ extraction_status' = Put(extraction_status, wk.item_id, "failed")
          /\ workers' = Ended(w)
     ELSE /\ workers' = [workers EXCEPT ![w] =
               IF wk.item_id \in DOMAIN text_cache
               THEN [wk EXCEPT !.pc = "append", !.remaining_text = r.text,
                               !.old = text_cache[wk.item_id]]
               ELSE [wk EXCEPT !.pc = "store", !.remaining_text = r.text]]
          /\ UNCHANGED extraction_status
  /\ UNCHANGED <<text_cache, calls, callsMade>>
  /\ UNCHANGED <<indexVars, syncVars, appVars>>

\* Lines 89/91: the write half.
WorkerWrite(w) ==
  LET wk == workers[w] IN
  /\ wk.pc \in {"append", "store"}
  /\ text_cache' = Put(text_cache, wk.item_id,
       IF wk.pc = "append" THEN wk.old \o <<NL>> \o wk.remaining_text
       ELSE wk.remaining_text)
  /\ workers' = [workers EXCEPT ![w] =
       [wk EXCEPT !.pc = "status", !.remaining_text = <<>>, !.old = <<>>]]
  /\ UNCHANGED <<extraction_status, calls, callsMade>>
  /\ UNCHANGED <<indexVars, syncVars, appVars>>

\* Line 93: _extraction_status[item_id] = 'completed'; the thread ends.
WorkerComplete(w) ==
  LET wk == workers[w] IN
  /\ wk.pc = "status"
  /\ extraction_status' = Put(extraction_status, wk.item_id, "completed")
  /\ workers' = Ended(w)
  /\ UNCHANGED <<text_cache, calls, callsMade>>
  /\ UNCHANGED <<indexVars, syncVars, appVars>>

\* ------------------------------------------------------------------------
\* The retrieval engine over a populated index
\* ------------------------------------------------------------------------
AllBodies == [id \in IndexIds |-> Body(id)]

\* A running backend: empty caches, a constructed manager, and an index that
\* holds the chunks of d1 and d3 and answers the user_id.keyword filter (its
\* mapping was derived dynamically, see IndexDocument; on the index as
\* create_index_if_not_exists maps it every search returns []).
Init ==
  /\ InitRag
  /\ calls = [t \in Threads |-> IdleCall]
  /\ manager = TRUE
  /\ indexExists = TRUE
  /\ mapping = "dynamic"
  /\ indexDocs = AllBodies
  /\ searchable = AllBodies
  /\ lastIndexed = None
  /\ lastOp = [op |-> "none"]
  /\ sync = NoSync
  /\ InitApp

Next ==
  \/ \E t \in Threads, up \in BOOLEAN : \E req \in RequestsOf(t) : SearchCall(t, req, up)
  \/ \E t \in Threads : Lookup(t)
  \/ \E t \in Threads, reachable \in BOOLEAN : Extract(t, reachable)
  \/ \E t \in Threads : SpawnWorker(t)
  \/ \E t \in Threads : Scan(t)
  \/ \E w \in 1..Len(workers) : WorkerRead(w)
  \/ \E w \in 1..Len(workers) : WorkerWrite(w)
  \/ \E w \in 1..Len(workers) : WorkerComplete(w)

Spec == Init /\ [][Next]_vars

\* ------------------------------------------------------------------------
\* Properties of BookshelfRAG.search (checked under Spec)
\* ------------------------------------------------------------------------

\* The worker threads running for document d.
ActiveWorkers(d) == {w \in 1..Len(workers) : workers[w].item_id = d}

\* C1: at most one _background_extract_worker thread is active per document
\* id, whatever the interleaving of search calls and workers.
C1_AtMostOneWorkerPerDocument ==
  \A d \in DocIds : Cardinality(ActiveWorkers(d)) <= 1

\* C2: a call that carries a user id and whose index search returned a hit
\* returns exactly the hit list and has not touched the caches, fetched
\* bytes or spawned a worker.
C2_IndexHitsReturnedVerbatim ==
  \A t \in Threads :
    LET c == calls[t] IN
    (c.user_id # None /\ c.hits # <<>>) =>
      /\ c.pc = "done"
      /\ c.outcome = "returned"
      /\ c.result = c.hits
      /\ ~c.touched /\ c.visited = 0 /\ c.fetches = 0 /\ c.spawned = 0
      /\ c.extracted = {}

C2_Witness ==
  \E t \in Threads :
    /\ calls[t].pc = "done" /\ calls[t].user_id = "A" /\ calls[t].bookshelf_items # <<>>
    /\ calls[t].hits # <<>> /\ calls[t].result = calls[t].hits

\* The characters of the documents user_id owns, and the separators and the
\* note the fallback adds.
OwnContent(content, user_id) ==
  \A i \in 1..Len(content) :
    \/ content[i] \in {SP, NL, NoteMark}
    \/ \E d \in DocIds : /\ Item(d).owner = user_id
                         /\ Lower(content[i]) \in Item(d).base .. (Item(d).base + 99)

\* C3: no result of a search issued with user id A holds content of a
\* document of another user, on the index path and in the fallback scan.
C3_TenantIsolation ==
  \A t \in Threads :
    LET c == calls[t] IN
    (c.pc = "done" /\ c.user_id # None) =>
      \A i \in 1..Len(c.result) :
        IF c.path = "index"
        THEN /\ c.result[i].id \in DOMAIN indexDocs
             /\ indexDocs[c.result[i].id].user_id = c.user_id
             /\ c.result[i].full_content = indexDocs[c.result[i].id].content
        ELSE OwnContent(c.result[i].content, c.user_id)

\* An index search of A answered with hits while a chunk of another user
\* matches the query as well.
C3_Witness ==
  \E t \in Threads :
    /\ calls[t].pc = "done" /\ calls[t].path = "index" /\ calls[t].result # <<>>
    /\ \E id \in DOMAIN searchable :
         /\ searchable[id].user_id # calls[t].user_id
         /\ MatchText(searchable[id].content, calls[t].query)

NotNL(c) == c # NL

StripNL(text) == SelectSeq(text, NotNL)

\* C7: once a PDF's status is 'completed', its cached text holds the text
\* of every page exactly once and in page order.
C7_CompletedTextIsEveryPageOnce ==
  \A d \in DOMAIN extraction_status :
    (extraction_status[d] = "completed" /\ Item(d).kind = "pdf") =>
      /\ d \in DOMAIN text_cache
      /\ StripNL(text_cache[d]) = StripNL(PdfPages(d, 0, Item(d).pages))

\* The text the bounded extraction of the first initial_limit pages of
\* each document returns, and its lower-cased form.
First50 == [d \in DocIds |-> extract_text(d, Item(d).fileType, 0, initial_limit).text]

First50Lower == [d \in DocIds |-> LowerText(First50[d])]

TermInFirst50(c, d) ==
  \E term \in SeqToSet(Split(LowerText(c.query))) : Contains(First50Lower[d], term)

\* A fallback call with top_k >= 1 that is over and that found document d
\* cold and fetched its bytes.
ColdFallbackDone(c, d) ==
  /\ c.pc = "done" /\ c.path = "fallback" /\ c.top_k >= 1
  /\ d \in c.extracted

\* C8 as stated: such a call returns a non-empty list whenever a query term
\* occurs in the text of the first 50 pages.
C8_ColdMatchReturned ==
  \A t \in Threads : \A d \in calls[t].extracted :
    (ColdFallbackDone(calls[t], d) /\ TermInFirst50(calls[t], d)) => calls[t].result # <<>>

\* C8 amended: ... whenever a query term of at most overlap + 1 characters
\* occurs in that text and the text is at least min_chunk_len characters long.
C8_ColdMatchReturnedIfLongEnough ==
  \A t \in Threads : \A d \in calls[t].extracted :
    ( /\ ColdFallbackDone(calls[t], d)
      /\ Len(First50[d]) >= min_chunk_len
      /\ \E term \in SeqToSet(Split(LowerText(calls[t].query))) :
           Len(term) <= overlap + 1 /\ Contains(First50Lower[d], term) )
    => calls[t].result # <<>>

C8_Witness ==
  \E t \in Threads :
    /\ ColdFallbackDone(calls[t], "d1") /\ TermInFirst50(calls[t], "d1")
    /\ Len(First50["d1"]) >= min_chunk_len
    /\ calls[t].result # <<>>

\* ------------------------------------------------------------------------
\* Progress of the background workers (checked under SpecLive)
\* ------------------------------------------------------------------------

\* The calls of a deployment without an index client: the fallback scan
\* over PDFs of every kind.
LiveRequests ==
  {Req("A", None, Q1, 2, <<"d1">>), Req("A", None, Q1, 2, <<"d2">>),
   Req("B", None, Q2, 2, <<"d4">>)}

LiveRequestsOf(t) == IF t = 1 THEN LiveRequests ELSE {Req("A", None, Q1, 2, <<"d1">>)}

WorkerStep ==
  \E w \in 1..Len(workers) : WorkerRead(w) \/ WorkerWrite(w) \/ WorkerComplete(w)

NextLive ==
  \/ \E t \in Threads : \E req \in LiveRequestsOf(t) : SearchCall(t, req, TRUE)
  \/ \E t \in Threads : Lookup(t)
  \/ \E t \in Threads, reachable \in BOOLEAN : Extract(t, reachable)
  \/ \E t \in Threads : SpawnWorker(t)
  \/ \E t \in Threads : Scan(t)
  \/ WorkerStep

\* A started threading.Thread that can take a step is eventually scheduled.
SpecLive == Init /\ [][NextLive]_vars /\ WF_vars(WorkerStep)

\* C6: under fair scheduling of the worker threads, every PDF whose status
\* a cold search set to 'running' is eventually marked 'completed'.
C6_RunningLeadsToCompleted ==
  \A d \in DocIds :
    (Get(extraction_status, d, None) = "running")
      ~> (Get(extraction_status, d, None) = "completed")

\* A short PDF fetched from storage whose worker ran to the end.
C6_Witness ==
  /\ Get(extraction_status, "d2", None) = "completed"
  /\ \E t \in Threads : "d2" \in calls[t].extracted /\ calls[t].spawned > 0


\* ------------------------------------------------------------------------
\* sync_data: the Firebase -> OpenSearch sync script
\* ------------------------------------------------------------------------
MaxSyncPages == 17
MaxSyncRuns == 2

PAGES_PER_CHUNK == 5
OVERLAP_PAGES == 2
\* A stride of a whole slice: consecutive slices share no page.
StrideWithoutOverlap == PAGES_PER_CHUNK

STRIDE == PAGES_PER_CHUNK - OVERLAP_PAGES
TocPages == 15
SyncMaxPages == 100

\* How the pages of the stored PDF read: "full" has text on every page,
\* "gap" has whitespace-only pages 3..7 (0-based), "head" whitespace-only
\* pages 0..4, "spaces" only whitespace-only pages, "empty" only pages with
\* no text at all (a scanned book), "odd" whitespace-only odd pages.
SyncShapes == {"full", "gap", "head", "spaces", "empty", "odd"}
SyncBase == 600

\* reader.pages[p].extract_text() for the stored PDF, p 0-based.
SyncPageBlank(book, p) ==
  CASE book.shape = "full" -> FALSE
    [] book.shape = "gap" -> p >= 3 /\ p <= 7
    [] book.shape = "head" -> p <= 4
    [] book.shape = "odd" -> p % 2 = 1
    [] OTHER -> TRUE

SyncPageText(book, p) ==
  IF SyncPageBlank(book, p)
  THEN (IF book.shape = "empty" THEN <<>> ELSE <<SP>>)
  ELSE <<SyncBase + p>>

\* The bookshelf of the one user the script finds: a PDF held in storage and
\* a text note held inline.
SyncUser == "A"
SyncItems == <<"s1", "s2">>
SyncItem(book, item_id) ==
  IF item_id = "s1"
  THEN [id |-> "s1", fileType |-> "application/pdf", storageUrl |-> TRUE,
        content |-> FALSE, pages |-> book.pages, shape |-> book.shape]
  ELSE [id |-> "s2", fileType |-> "text", storageUrl |-> FALSE,
        content |-> TRUE, pages |-> 0, shape |-> "full"]
SyncNoteText == <<SyncBase + 99>>

\* str.strip() leaves nothing.
IsBlankText(text) == \A i \in 1..Len(text) : IsSpace(text[i])

\* BookshelfRAG.extract_text(file_bytes, file_type, max_pages=100) on the
\* stored PDF: the pages with truthy text, each followed by a newline.
RECURSIVE SyncExtract(_, _, _)
SyncExtract(book, i, end_page) ==
  IF i >= end_page THEN <<>>
  ELSE (IF SyncPageText(book, i) # <<>> THEN SyncPageText(book, i) \o <<NL>> ELSE <<>>)
       \o SyncExtract(book, i + 1, end_page)

\* text_content of one bookshelf item: the inline text of a 'text' item,
\* otherwise the extraction of the downloaded file (nothing when the
\* download fails).
TextContent(item, downloaded) ==
  IF item.content /\ item.fileType = "text" THEN SyncNoteText
  ELSE IF item.storageUrl /\ downloaded
       THEN SyncExtract(item, 0, Min(SyncMaxPages, item.pages))
       ELSE <<>>

\* is_pdf: by fileType (the model's storage URLs do not end in .pdf).
SyncIsPdf(item) == item.fileType \in {"application/pdf", "pdf"}

\* chunk_text of the slice [start_page, end_page): every page's text, each
\* followed by a newline.
RECURSIVE ChunkText(_, _, _)
ChunkText(book, i, end_page) ==
  IF i >= end_page THEN <<>>
  ELSE SyncPageText(book, i) \o <<NL>> \o ChunkText(book, i + 1, end_page)

\* A slice that stops where the overlap would begin.
EndPageWithoutOverlap(start_page, total_pages) ==
  Min(start_page + OVERLAP_PAGES, total_pages)

\* end_page of the slice that starts at start_page.
EndPage(start_page, total_pages) ==
  Min(start_page + PAGES_PER_CHUNK, total_pages)
\* A ToC range that runs to the last page.
TocEndUncapped(total_pages) == total_pages

\* toc_end: the ToC chunk takes the first 15 pages at most.
TocEnd(total_pages) == Min(TocPages, total_pages)

\* Document ids: f"{item_id}_chunk_{chunk_num}" and f"{item_id}_toc".
\* Chunk ids that carry the number of the run that wrote them.
ChunkIdPerRun(item_id, chunk_num) ==
  <<item_id, "chunk", chunk_num + 100 * sync.runs>>

ChunkId(item_id, chunk_num) == <<item_id, "chunk", chunk_num>>
TocId(item_id) == <<item_id, "toc", 0>>

ChunkDoc(item, chunk_num, start_page, end_page) ==
  [user_id |-> SyncUser, book_id |-> item.id,
   chunk_id |-> ChunkId(item.id, chunk_num),
   content |-> ChunkText(item, start_page, end_page),
   page_start |-> start_page + 1, page_end |-> end_page,
   file_type |-> item.fileType]

TocBanner == <<SyncBase + 98, NL>>
TocDoc(item, total_pages) ==
  [user_id |-> SyncUser, book_id |-> item.id, chunk_id |-> TocId(item.id),
   content |-> TocBanner \o ChunkText(item, 0, TocEnd(total_pages)),
   page_start |-> 1, page_end |-> TocEnd(total_pages), file_type |-> "toc"]

SingleChunkDoc(item, text_content) ==
  [user_id |-> SyncUser, book_id |-> item.id, chunk_id |-> ChunkId(item.id, 0),
   content |-> text_content, page_start |-> 1, page_end |-> 1,
   file_type |-> item.fileType]


\* os_manager.index_document(doc_id, document) as sync_data calls it: the
\* write replaces whatever the index holds under doc_id and is searchable
\* on return.
SyncIndexWrite(doc_id, document) ==
  /\ indexExists' = TRUE
  /\ mapping' = IF indexExists THEN mapping ELSE "dynamic"
  /\ indexDocs' = Put(indexDocs, doc_id, document)
  /\ searchable' = indexDocs'
  /\ lastIndexed' = doc_id
  /\ lastOp' = [op |-> "index", id |-> doc_id, ok |-> TRUE]
  /\ UNCHANGED manager

\* The write raised (transport error): the index is as it was.
SyncIndexFailed(doc_id) ==
  /\ lastIndexed' = None
  /\ lastOp' = [op |-> "index", id |-> doc_id, ok |-> FALSE]
  /\ UNCHANGED <<manager, indexExists, mapping, indexDocs, searchable>>

SyncCurrent == SyncItem(sync, SyncItems[sync.idx])

\* sync_data starts: it pings the service and returns at once when the ping
\* fails.
SyncBegin(up) ==
  /\ sync.pc = "idle"
  /\ sync.runs < MaxSyncRuns
  /\ sync' = IF up
             THEN [sync EXCEPT !.pc = "item", !.idx = 1,
                               !.before = DOMAIN indexDocs,
                               !.synced = @ \cup sync.done,
                               !.done = {}, !.log = <<>>]
             ELSE [sync EXCEPT !.runs = @ + 1]
  /\ UNCHANGED indexVars
  /\ UNCHANGED <<ragVars, appVars>>

\* The head of the loop body for one bookshelf item: text_content, then
\* either the start of PDF chunking or the single chunk of a non-PDF.
SyncItemStep(downloaded, redownloaded, up) ==
  /\ sync.pc = "item"
  /\ sync.idx <= Len(SyncItems)
  /\ LET item == SyncCurrent
         text_content == TextContent(item, downloaded)
     IN IF text_content = <<>>
        THEN /\ sync' = [sync EXCEPT !.idx = @ + 1]
             /\ UNCHANGED indexVars
        ELSE IF SyncIsPdf(item) /\ item.storageUrl
        THEN /\ sync' = IF redownloaded
                        THEN [sync EXCEPT !.pc = "chunk", !.start_page = 0,
                                          !.chunk_num = 0]
                        ELSE [sync EXCEPT !.idx = @ + 1]
             /\ UNCHANGED indexVars
        ELSE IF up
        THEN /\ SyncIndexWrite(ChunkId(item.id, 0), SingleChunkDoc(item, text_content))
             /\ sync' = [sync EXCEPT !.idx = @ + 1,
                                     !.done = @ \cup {item.id},
                                     !.log = Append(@, ChunkId(item.id, 0))]
        ELSE /\ SyncIndexFailed(ChunkId(item.id, 0))
             /\ sync' = [sync EXCEPT !.pc = "idle", !.runs = @ + 1]
  /\ UNCHANGED <<ragVars, appVars>>

\* One iteration of the sliding-window loop: a slice whose text strips to
\* nothing is skipped; an index write that raises ends the chunking of this
\* item.
SyncChunk(up) ==
  /\ sync.pc = "chunk"
  /\ sync.start_page < sync.pages
  /\ LET item == SyncCurrent
         total_pages == item.pages
         start_page == sync.start_page
         end_page == EndPage(start_page, total_pages)
         chunk_text == ChunkText(item, start_page, end_page)
         chunk_id == ChunkId(item.id, sync.chunk_num)
     IN IF IsBlankText(chunk_text)
        THEN /\ sync' = [sync EXCEPT !.start_page = @ + STRIDE]
             /\ UNCHANGED indexVars
        ELSE IF up
        THEN /\ SyncIndexWrite(chunk_id,
                               ChunkDoc(item, sync.chunk_num, start_page, end_page))
             /\ sync' = [sync EXCEPT !.start_page = @ + STRIDE,
                                     !.chunk_num = @ + 1,
                                     !.log = Append(@, chunk_id)]
        ELSE /\ SyncIndexFailed(chunk_id)
             /\ sync' = [sync EXCEPT !.pc = "item", !.idx = @ + 1]
  /\ UNCHANGED <<ragVars, appVars>>

\* After the loop: the table-of-contents chunk.
SyncToc(up) ==
  /\ sync.pc = "chunk"
  /\ sync.start_page >= sync.pages
  /\ LET item == SyncCurrent
     IN IF up
        THEN /\ SyncIndexWrite(TocId(item.id), TocDoc(item, item.pages))
             /\ sync' = [sync EXCEPT !.pc = "item", !.idx = @ + 1,
                                     !.done = @ \cup {item.id},
                                     !.log = Append(@, TocId(item.id))]
        ELSE /\ SyncIndexFailed(TocId(item.id))
             /\ sync' = [sync EXCEPT !.pc = "item", !.idx = @ + 1]
  /\ UNCHANGED <<ragVars, appVars>>

\* Every item has been handled: the script ends.
SyncEnd ==
  /\ sync.pc = "item"
  /\ sync.idx > Len(SyncItems)
  /\ sync' = [sync EXCEPT !.pc = "idle", !.runs = @ + 1]
  /\ UNCHANGED indexVars
  /\ UNCHANGED <<ragVars, appVars>>

\* The index exists and is empty; the store holds a PDF of any page count
\* and shape.
InitSync ==
  /\ InitRag
  /\ InitApp
  /\ calls = <<>>
  /\ manager = TRUE
  /\ indexExists = TRUE
  /\ mapping = "explicit"
  /\ indexDocs = EmptyMap
  /\ searchable = EmptyMap
  /\ lastIndexed = None
  /\ lastOp = [op |-> "none"]
  /\ sync \in {[pc |-> "idle", pages |-> P, shape |-> sh, runs |-> 0, idx |-> 0,
                start_page |-> 0, chunk_num |-> 0, before |-> {}, synced |-> {},
                done |-> {}, log |-> <<>>] : P \in 1..MaxSyncPages, sh \in SyncShapes}

NextSync ==
  \/ \E up \in BOOLEAN : SyncBegin(up)
  \/ \E downloaded \in BOOLEAN, redownloaded \in BOOLEAN, up \in BOOLEAN :
       SyncItemStep(downloaded, redownloaded, up)
  \/ \E up \in BOOLEAN : SyncChunk(up)
  \/ \E up \in BOOLEAN : SyncToc(up)
  \/ SyncEnd

SpecSync == InitSync /\ [][NextSync]_vars


\* ------------------------------------------------------------------------
\* Properties of sync_data (under SpecSync)
\* ------------------------------------------------------------------------
\* The index entries of one bookshelf item, without its ToC entry.
BookEntries(item_id) ==
  {k \in DOMAIN indexDocs : indexDocs[k].book_id = item_id}
PageChunks(item_id) ==
  {indexDocs[k] : k \in {k \in BookEntries(item_id) : indexDocs[k].file_type # "toc"}}
Covered(item_id) ==
  UNION {c.page_start..c.page_end : c \in PageChunks(item_id)}

\* The slices the loop visits, by start page, and whether one has text.
SliceStarts(total_pages) == {sp \in 0..(total_pages - 1) : sp % STRIDE = 0}
SliceHasText(book, sp) ==
  \E p \in sp..(Min(sp + PAGES_PER_CHUNK, book.pages) - 1) : ~SyncPageBlank(book, p)
EverySliceHasText(book) == \A sp \in SliceStarts(book.pages) : SliceHasText(book, sp)

\* C12 as stated: once sync_data has chunked the PDF, the page ranges of its
\* non-ToC chunks cover exactly the pages 1..P, none left out.
C12_ChunksCoverEveryPage ==
  "s1" \in sync.done => Covered("s1") = 1..sync.pages

\* C12, amended: the page ranges of the non-ToC chunks stay within 1..P and
\* cover every page that has text; they cover exactly 1..P when every slice
\* has text.  A page is left out only when every slice holding it is blank.
C12_PagesWithTextCovered ==
  "s1" \in sync.done =>
     /\ Covered("s1") \subseteq 1..sync.pages
     /\ \A p \in 1..sync.pages : ~SyncPageBlank(sync, p - 1) => p \in Covered("s1")
     /\ EverySliceHasText(sync) => Covered("s1") = 1..sync.pages

C12_Witness ==
  /\ "s1" \in sync.done
  /\ sync.shape = "gap"
  /\ sync.pages >= 9
  /\ 6 \notin Covered("s1")
  /\ 9 \in Covered("s1")


\* The ToC entries the index holds for one item, and the writes of one
\* document id in the current run.
TocEntries(item_id) ==
  {k \in BookEntries(item_id) : indexDocs[k].file_type = "toc"}
WritesOf(doc_id) == {i \in 1..Len(sync.log) : sync.log[i] = doc_id}

\* C13: once sync_data has indexed the PDF of P >= 1 pages, exactly one
\* chunk of file_type 'toc' has been written for it, under the id
\* {documentId}_toc, with page_start = 1 and page_end = min(15, P).
C13_ExactlyOneTocChunk ==
  "s1" \in sync.done =>
     /\ sync.pages >= 1
     /\ TocEntries("s1") = {TocId("s1")}
     /\ Cardinality(WritesOf(TocId("s1"))) = 1
     /\ indexDocs[TocId("s1")].page_start = 1
     /\ indexDocs[TocId("s1")].page_end = Min(15, sync.pages)

C13_Witness ==
  /\ "s1" \in sync.done
  /\ sync.pages > 15
  /\ TocId("s1") \in DOMAIN indexDocs
  /\ indexDocs[TocId("s1")].page_end = 15


\* The page range of one index entry.
RangeOf(doc_id) == <<indexDocs[doc_id].page_start, indexDocs[doc_id].page_end>>

\* C14: for a PDF of P pages whose slices all have text, sync_data writes
\* the non-ToC chunks {documentId}_chunk_i with page ranges
\* [3i+1, min(3i+5, P)] for i = 0..ceil(P/3)-1, in that order, then the ToC
\* chunk; for P = 12 these are [1-5], [4-8], [7-11], [10-12] and ToC [1-12].
C14_SlidingWindowRanges ==
  ("s1" \in sync.done /\ EverySliceHasText(sync)) =>
     LET P == sync.pages
         n == (P + 2) \div 3
     IN /\ Len(sync.log) >= n + 1
        /\ \A i \in 0..(n - 1) :
             /\ sync.log[i + 1] = ChunkId("s1", i)
             /\ RangeOf(ChunkId("s1", i)) = <<3 * i + 1, Min(3 * i + 5, P)>>
        /\ sync.log[n + 1] = TocId("s1")
        /\ {k \in BookEntries("s1") : indexDocs[k].file_type # "toc"}
             = {ChunkId("s1", i) : i \in 0..(n - 1)}
        /\ P = 12 =>
             /\ <<RangeOf(ChunkId("s1", 0)), RangeOf(ChunkId("s1", 1)),
                  RangeOf(ChunkId("s1", 2)), RangeOf(ChunkId("s1", 3))>>
                  = <<<<1, 5>>, <<4, 8>>, <<7, 11>>, <<10, 12>>>>
             /\ RangeOf(TocId("s1")) = <<1, 12>>

C14_Witness ==
  /\ "s1" \in sync.done
  /\ sync.pages = 12
  /\ sync.shape = "odd"
  /\ Cardinality(PageChunks("s1")) = 4
  /\ RangeOf(ChunkId("s1", 3)) = <<10, 12>>


\* The ids the current run has written for one item, and the ids the index
\* held for it when the run began.
WrittenIds(item_id) ==
  {sync.log[i] : i \in {i \in 1..Len(sync.log) : sync.log[i][1] = item_id}}
IdsBefore(item_id) == {k \in sync.before : k[1] = item_id}

\* C15: when sync_data chunks a document again, its page texts and the
\* policy constants unchanged, the run writes the same set of chunk ids as
\* the earlier run: every write replaces an entry and the index gains none.
C15_RechunkingKeepsIds ==
  \A item_id \in {"s1", "s2"} :
    (item_id \in sync.done /\ item_id \in sync.synced) =>
       /\ WrittenIds(item_id) = IdsBefore(item_id)
       /\ BookEntries(item_id) = IdsBefore(item_id)

C15_Witness ==
  /\ "s1" \in sync.done
  /\ "s1" \in sync.synced
  /\ sync.runs >= 1
  /\ Cardinality(WrittenIds("s1")) >= 4
  /\ BookEntries("s1") = IdsBefore("s1")


\* ------------------------------------------------------------------------
\* The extraction lifecycle of a document (under Spec)
\* ------------------------------------------------------------------------
StatusOf(d) == Get(extraction_status, d, None)

\* C17: the status of a document moves only from none to 'running' and from
\* 'running' to 'completed' or 'failed'; 'completed' and 'failed' are
\* terminal: no step of a search call or of a worker changes them.
C17_StatusLifecycle ==
  [][\A d \in DocIds :
       LET old == StatusOf(d)
           new == Get(extraction_status', d, None)
       IN old # new =>
            \/ old = None /\ new = "running"
            \/ old = "running" /\ new \in {"completed", "failed"}]_vars


\* The calls, running or over, that performed the bounded extraction of d
\* (lines 168-173: extract the first 50 pages, write _text_cache[d]).
Extractors(d) == {t \in Threads : d \in calls[t].extracted}

\* C18: the bounded synchronous extraction of a document is performed at
\* most once, whatever the sequence or interleaving of search calls.
C18_BoundedExtractionOnce ==
  \A d \in DocIds : Cardinality(Extractors(d)) <= 1


PdfTypes == {"pdf", "application/pdf"}

\* C19: a document whose fileType is not a PDF type never gets a worker or
\* the status 'running', whatever its other fields, and its cached text is
\* its content, once.
C19_NoWorkerForNonPdf ==
  \A d \in DocIds :
    Item(d).fileType \notin PdfTypes =>
       /\ StatusOf(d) # "running"
       /\ ActiveWorkers(d) = {}
       /\ d \in DOMAIN text_cache => text_cache[d] = Decode(d)


\* The content ends with the caveat suffix.
HasNote(content) ==
  /\ Len(content) >= Len(NoteText)
  /\ SubSeq(content, Len(content) - Len(NoteText) + 1, Len(content)) = NoteText

\* The text the call scans was read while the extraction of the current
\* item had not completed: the status read at line 146 was 'running', or
\* the call itself has just extracted the first pages of an item that gets
\* a worker.
PartialRead(c) ==
  \/ c.status = "running"
  \/ CurrentItem(c).id \in c.extracted /\ IsPdfItem(CurrentItem(c))

\* C20: every window a fallback call keeps from a text that it read while
\* the document's background extraction had not completed carries the
\* caveat suffix, whatever the worker does in the meantime.
C20_PartialWindowsCarryCaveat ==
  [][\A t \in Threads :
       (/\ calls[t].pc = "scan"
        /\ PartialRead(calls[t])
        /\ Len(calls'[t].relevant_chunks) > Len(calls[t].relevant_chunks))
       => HasNote(calls'[t].relevant_chunks[Len(calls'[t].relevant_chunks)].content)]_vars


\* ------------------------------------------------------------------------
\* The fallback scan as a function of the query and the text
\* ------------------------------------------------------------------------
\* Words, queries made of them with various white space, and what a
\* window holds besides filler.
ScoreWords == {<<10>>, <<11>>, <<UpperBase + 10>>, <<10, 11>>}
ScoreQueries ==
  {<<SP>>} \cup ScoreWords
  \cup {w1 \o <<SP>> \o w2 : w1 \in ScoreWords, w2 \in ScoreWords}
  \cup {<<SP>> \o w1 \o <<NL, SP>> \o w2 : w1 \in ScoreWords, w2 \in ScoreWords}
ScoreContents ==
  {<<>>, <<10>>, <<11>>, <<UpperBase + 11>>, <<10, SP, 11>>, <<11, 10>>, <<10, 11>>}
FillChar == 20
Fill(n) == [i \in 1..n |-> FillChar]

\* A text of two windows: x1 lies in the first window only, x2 in the
\* second only, and the overlap holds filler.
ScoreText(x1, x2) == x1 \o Fill(chunk_size - Len(x1)) \o x2
ScoreTexts == {ScoreText(x1, x2) : x1 \in ScoreContents, x2 \in ScoreContents}

\* A fallback call of user B over the text item d3 that is about to scan
\* the text it read from the cache; the query and the text are any of the
\* above.
InitScore ==
  /\ \E text \in ScoreTexts, query \in ScoreQueries :
       /\ text_cache = Put(EmptyMap, "d3", text)
       /\ calls = [t \in Threads |->
            IF t = 1
            THEN [IdleCall EXCEPT !.pc = "scan", !.user_id = "B", !.query = query,
                                  !.top_k = 2, !.bookshelf_items = <<"d3">>,
                                  !.idx = 1, !.text = text, !.path = "fallback",
                                  !.touched = TRUE, !.visited = 1]
            ELSE IdleCall]
  /\ extraction_status = EmptyMap
  /\ workers = <<>>
  /\ callsMade = 1
  /\ manager = TRUE
  /\ indexExists = TRUE
  /\ mapping = "dynamic"
  /\ indexDocs = AllBodies
  /\ searchable = AllBodies
  /\ lastIndexed = None
  /\ lastOp = [op |-> "none"]
  /\ sync = NoSync
  /\ InitApp

NextScore == \E t \in Threads : Scan(t)

SpecScore == InitScore /\ [][NextScore]_vars

\* The distinct lower-case terms of a query: its maximal runs of
\* non-whitespace characters, lower-cased.
TermsOf(q) ==
  {LowerText(SubSeq(q, i, j)) : <<i, j>> \in
     {p \in (1..Len(q)) \X (1..Len(q)) :
        /\ p[1] <= p[2]
        /\ \A k \in p[1]..p[2] : ~IsSpace(q[k])
        /\ p[1] = 1 \/ IsSpace(q[p[1] - 1])
        /\ p[2] = Len(q) \/ IsSpace(q[p[2] + 1])}}

\* The term is a substring of the lower-cased window.
Occurs(term, window) ==
  \E i \in 0..(Len(window) - Len(term)) :
     \A j \in 1..Len(term) : Lower(window[i + j]) = term[j]
TermsIn(window, q) == {term \in TermsOf(q) : Occurs(term, window)}

\* The windows of the scanned text, and the score the call gave a window
\* (0 when it did not keep it).
WindowsOf(text) == {Slice(text, 0, chunk_size), Slice(text, chunk_size - overlap, 2 * chunk_size - overlap)}
KeptAs(c, window) == {i \in 1..Len(c.relevant_chunks) : c.relevant_chunks[i].content = window}
ScoreGiven(c, window) ==
  IF KeptAs(c, window) = {} THEN 0
  ELSE c.relevant_chunks[CHOOSE i \in KeptAs(c, window) : TRUE].score

\* C16: the score of a kept window is the number of distinct lower-case
\* whitespace-separated query terms that occur in the lower-cased window;
\* no window with score 0 is kept or returned; and a window that holds every
\* term scores strictly higher than one that holds a strict subset of them.
C16_ScoreCountsDistinctTerms ==
  LET c == calls[1]
      q == c.query
  IN /\ \A i \in 1..Len(c.relevant_chunks) :
          /\ c.relevant_chunks[i].score
               = Cardinality(TermsIn(c.relevant_chunks[i].content, q))
          /\ c.relevant_chunks[i].score > 0
     /\ \A i \in 1..Len(c.result) : c.result[i].score > 0
     /\ c.pc = "done" =>
          \A a \in WindowsOf(text_cache["d3"]), b \in WindowsOf(text_cache["d3"]) :
             /\ ScoreGiven(c, a) = Cardinality(TermsIn(a, q))
             /\ (TermsOf(q) # {} /\ TermsIn(a, q) = TermsOf(q) /\ TermsIn(b, q) # TermsOf(q))
                  => ScoreGiven(c, a) > ScoreGiven(c, b)

C16_Witness ==
  /\ calls[1].pc = "done"
  /\ Len(calls[1].result) = 2
  /\ calls[1].result[1].score = 2
  /\ calls[1].result[2].score = 1
  /\ calls[1].result[1].content = Slice(text_cache["d3"], chunk_size - overlap, 2 * chunk_size - overlap)
  /\ Cardinality(TermsOf(calls[1].query)) = 2


\* ------------------------------------------------------------------------
\* Failing pages (under Spec)
\* ------------------------------------------------------------------------
\* The extraction of the pages after the first 50 meets a page that raises.
RemainderFails(d) ==
  Item(d).kind = "pdf" /\ PageRaises(d, initial_limit, Item(d).pages)

\* C21: when the background extraction of the remaining pages of a document
\* fails, its worker leaves the status 'failed' and the cached text as the
\* bounded extraction wrote it.
C21_FailedExtractionMarksFailed ==
  \A d \in DocIds :
    (RemainderFails(d) /\ StatusOf(d) \notin {None, "running"}) =>
       /\ StatusOf(d) = "failed"
       /\ text_cache[d] = First50[d]


\* The text of the pages i..end_page-1 where a page that raises counts as
\* a page without text.
RECURSIVE PagesThatSucceed(_, _, _)
PagesThatSucceed(d, i, end_page) ==
  IF i >= end_page THEN <<>>
  ELSE (IF i \notin BadPages(d) /\ PageText(d, i) # <<>>
        THEN PageText(d, i) \o <<NL>> ELSE <<>>)
       \o PagesThatSucceed(d, i + 1, end_page)

\* C22: extract_text over a page range of a PDF returns the text of every
\* page of the range that can be extracted, a page that raises contributing
\* nothing; seen on the text a worker got back for the pages from 50 on.
C22_FailingPageCostsOnlyItself ==
  \A w \in 1..Len(workers) :
    (/\ workers[w].pc \in {"append", "store"}
     /\ workers[w].file_type \in PdfTypes
     /\ Item(workers[w].item_id).kind = "pdf")
    => workers[w].remaining_text
         = PagesThatSucceed(workers[w].item_id, workers[w].start_page,
                            Item(workers[w].item_id).pages)


\* ------------------------------------------------------------------------
\* The fallback's aggregation as a function of the cached texts and top_k
\* ------------------------------------------------------------------------
RankQuery == <<10, SP, 11>>
RankContents == {<<>>, <<10>>, <<10, SP, 11>>}
RankTexts == {ScoreText(x1, x2) : x1 \in RankContents, x2 \in RankContents}
Blanks(n) == [i \in 1..n |-> SP]
RankShortTexts ==
  {pad \o x : pad \in {Fill(min_chunk_len), Blanks(min_chunk_len)}, x \in RankContents}
RankTopKs == 1..4

\* A fallback call over the cached text items d3 (two windows) and d6 (one
\* window, its extraction completed) that is about to scan d3.
InitRank ==
  /\ \E text \in RankTexts, short \in RankShortTexts, top_k \in RankTopKs :
       /\ text_cache = Put(Put(EmptyMap, "d3", text), "d6", short)
       /\ calls = [t \in Threads |->
            IF t = 1
            THEN [IdleCall EXCEPT !.pc = "scan", !.user_id = "B", !.query = RankQuery,
                                  !.top_k = top_k, !.bookshelf_items = <<"d3", "d6">>,
                                  !.idx = 1, !.text = text, !.path = "fallback",
                                  !.touched = TRUE, !.visited = 1]
            ELSE IdleCall]
  /\ extraction_status = Put(EmptyMap, "d6", "completed")
  /\ workers = <<>>
  /\ callsMade = 1
  /\ manager = TRUE
  /\ indexExists = TRUE
  /\ mapping = "dynamic"
  /\ indexDocs = AllBodies
  /\ searchable = AllBodies
  /\ lastIndexed = None
  /\ lastOp = [op |-> "none"]
  /\ sync = NoSync
  /\ InitApp

NextRank ==
  \/ \E t \in Threads : Lookup(t)
  \/ \E t \in Threads : Scan(t)

SpecRank == InitRank /\ [][NextRank]_vars

\* C23: the fallback returns the kept windows of all candidate documents
\* sorted by non-increasing score and cut to top_k: at most top_k entries,
\* as many as there are kept windows otherwise, scores never increasing
\* along the list, and no kept window left out scores strictly higher than
\* a returned one.
C23_SortedAndTruncated ==
  LET c == calls[1]
      kept == SeqToSet(c.relevant_chunks)
      returned == SeqToSet(c.result)
  IN c.pc = "done" =>
       /\ Len(c.result) = Min(c.top_k, Len(c.relevant_chunks))
       /\ Cardinality(returned) = Len(c.result)
       /\ returned \subseteq kept
       /\ \A i \in 1..Len(c.result), j \in 1..Len(c.result) :
            i < j => c.result[i].score >= c.result[j].score
       /\ \A out \in kept \ returned, r \in returned : out.score <= r.score

\* Three kept windows in rising order of score, of which the best two are
\* returned, best first.
C23_Witness ==
  LET c == calls[1]
  IN /\ c.pc = "done"
     /\ c.top_k = 2
     /\ Len(c.relevant_chunks) = 3
     /\ c.relevant_chunks[1].score = 1
     /\ c.relevant_chunks[2].score = 2
     /\ c.relevant_chunks[3].score = 2
     /\ c.result = <<c.relevant_chunks[2], c.relevant_chunks[3]>>


\* len(s.strip())
TrimLen(s) ==
  LET inked == {i \in 1..Len(s) : ~IsSpace(s[i])}
  IN IF inked = {} THEN 0
     ELSE (CHOOSE i \in inked : \A j \in inked : j <= i)
          - (CHOOSE i \in inked : \A j \in inked : j >= i) + 1

\* The window of a text that starts at the k-th offset.
WindowAt(text, k) ==
  Slice(text, k * (chunk_size - overlap), k * (chunk_size - overlap) + chunk_size)

\* C24: every window the fallback keeps is the stretch of at most 800
\* characters of a cached text that starts at one of the offsets 0, 650,
\* 1300, ..., and is at least 50 characters long after its white space is
\* trimmed.
C24_WindowsAndTrimmedMinimum ==
  LET c == calls[1]
  IN \A i \in 1..Len(c.relevant_chunks) :
       LET chunk == c.relevant_chunks[i].content
       IN /\ Len(chunk) <= 800
          /\ \E d \in DOMAIN text_cache, k \in 0..2 : chunk = WindowAt(text_cache[d], k)
          /\ TrimLen(chunk) >= 50


\* ------------------------------------------------------------------------
\* A candidate document whose bytes cannot be had (under Spec)
\* ------------------------------------------------------------------------
\* The embedded content of the item does not decode.
Undecodable(item) == item.src = "content" /\ ~item.decodable

\* The step of call t is the hybrid-extraction block of an item whose bytes
\* it does not get: the content does not decode, or the fetch is counted
\* and nothing is extracted.
FetchFails(t) ==
  /\ calls[t].pc = "extract"
  /\ calls'[t] # calls[t]
  /\ \/ Undecodable(CurrentItem(calls[t]))
     \/ /\ calls'[t].fetches = calls[t].fetches + 1
        /\ CurrentItem(calls[t]).id \notin calls'[t].extracted

\* C25: a candidate document whose bytes cannot be fetched or decoded is
\* skipped: the step leaves _text_cache, _extraction_status and the
\* workers as they are, counts one fetch, keeps the windows gathered so
\* far, and puts the call where a call without that item would be: at the
\* lookup of the next item, or returning the windows of the others.
C25_UnfetchableDocumentSkipped ==
  [][\A t \in Threads :
       FetchFails(t) =>
         /\ text_cache' = text_cache
         /\ extraction_status' = extraction_status
         /\ workers' = workers
         /\ calls'[t].fetches = calls[t].fetches + 1
         /\ calls'[t].spawned = calls[t].spawned
         /\ calls'[t].extracted = calls[t].extracted
         /\ calls'[t].relevant_chunks = calls[t].relevant_chunks
         /\ IF calls[t].idx < Len(calls[t].bookshelf_items)
            THEN calls'[t].pc = "lookup" /\ calls'[t].idx = calls[t].idx + 1
            ELSE /\ calls'[t].pc = "done"
                 /\ calls'[t].outcome = "returned"
                 /\ calls'[t].result
                      = FallbackResult(calls[t].relevant_chunks, calls[t].top_k)]_vars

\* A call over the undecodable d5 and the PDF d1 that skipped d5, fetched
\* d1 and returned a window of d1; d5 has left no trace.
C25_Witness ==
  \E t \in Threads :
    /\ calls[t].pc = "done"
    /\ calls[t].bookshelf_items = <<"d5", "d1">>
    /\ calls[t].fetches = 2
    /\ calls[t].extracted = {"d1"}
    /\ Len(calls[t].result) = 1
    /\ calls[t].result[1].source = Item("d1").title
    /\ "d5" \notin DOMAIN text_cache
    /\ "d5" \notin DOMAIN extraction_status
    /\ ActiveWorkers("d5") = {}


IsPrefix(s, t) == Len(s) <= Len(t) /\ SubSeq(t, 1, Len(s)) = s

\* C29: every write to _text_cache[id] extends the value it replaces: the
\* cached text of a document only grows, whatever the interleaving of
\* search calls and workers.
C29_CachedTextOnlyGrows ==
  [][\A d \in DOMAIN text_cache :
       d \in DOMAIN text_cache' /\ IsPrefix(text_cache[d], text_cache'[d])]_vars


\* ------------------------------------------------------------------------
\* The bookshelf handlers of app.py and background_index_task
\* ------------------------------------------------------------------------
MaxPosts == 1

\* The signed-in user of the requests.
ShelfUser == "A"

\* The ids the store gives to new items, in order.
NewIds == <<"n1", "n2", "n3", "n4">>

\* What a client posts: a text note with inline content, a PDF held in
\* storage, or metadata only.
PostKinds == {"text", "stored", "meta"}
PostTitle == <<UpperBase + 900>>
PostText == <<UpperBase + 901, SP, 902>>
ShelfQuery == <<901>>
PostFileType(kind) == IF kind = "stored" THEN "application/pdf" ELSE "text"

\* The item a chunk of the populated index belongs to (its book_id).
BookOf(id) ==
  CASE id \in {"d1_chunk_0", "d1_toc"} -> "d1"
    [] id = "d3_chunk_0" -> "d3"
    [] OTHER -> None

\* text_content of background_index_task: the decoded inline text, or the
\* extraction of the fetched file.
TaskText(kind, reachable) ==
  CASE kind = "text" -> PostText
    [] kind = "stored" -> IF reachable THEN PostText \o <<NL>> ELSE <<>>
    [] OTHER -> <<>>

\* doc_body of background_index_task.
TaskBody(task, text_content) ==
  [user_id |-> task.uid, file_type |-> PostFileType(task.kind),
   title |-> PostTitle, content |-> text_content]

\* doc_body of the PATCH handlers: title, file_type, user_id and the
\* annotations; it has no 'content' key (an absent content is <<>>).
PatchBody(uid, item) ==
  [user_id |-> uid, file_type |-> item.fileType, title |-> item.title,
   content |-> <<>>]

\* The write of index_document as the handlers and threads of app.py see it.
ShelfIndexWrite(doc_id, document) ==
  /\ indexExists' = TRUE
  /\ mapping' = IF indexExists THEN mapping ELSE "dynamic"
  /\ indexDocs' = Put(indexDocs, doc_id, document)
  /\ searchable' = indexDocs'
  /\ lastIndexed' = doc_id
  /\ UNCHANGED manager

ShelfIndexUntouched ==
  /\ lastIndexed' = None
  /\ UNCHANGED <<manager, indexExists, mapping, indexDocs, searchable>>

\* POST /bookshelf: the item is added to the store and, when there is an
\* index manager, a background_index_task thread is started for it.
ShelfPost(uid, kind, storeUp) ==
  /\ shelf.posted < MaxPosts
  /\ LET doc_id == NewIds[shelf.posted + 1]
     IN IF storeUp
        THEN /\ shelf' = [shelf EXCEPT
                   !.posted = @ + 1,
                   !.items = Put(@, doc_id, [owner |-> uid, fileType |-> PostFileType(kind),
                                             title |-> PostTitle]),
                   !.tasks = IF manager
                             THEN @ \cup {[doc_id |-> doc_id, uid |-> uid, kind |-> kind]}
                             ELSE @]
             /\ lastOp' = [op |-> "post", id |-> doc_id, response |-> 201]
        ELSE /\ UNCHANGED shelf
             /\ lastOp' = [op |-> "post", id |-> doc_id, response |-> 500]
  /\ ShelfIndexUntouched
  /\ UNCHANGED <<ragVars, syncVars, gemini, memory>>

\* background_index_task(uid, data, doc_id, opensearch_manager): one index
\* write under the item id when there is text; every error is caught.
IndexTask(task, reachable, up) ==
  /\ task \in shelf.tasks
  /\ LET text_content == TaskText(task.kind, reachable)
     IN IF text_content # <<>> /\ up
        THEN ShelfIndexWrite(task.doc_id, TaskBody(task, text_content))
        ELSE ShelfIndexUntouched
  /\ shelf' = [shelf EXCEPT !.tasks = @ \ {task}]
  /\ lastOp' = [op |-> "index_task", id |-> task.doc_id, response |-> 0]
  /\ UNCHANGED <<ragVars, syncVars, gemini, memory>>

\* PATCH /bookshelf/<item_id>: doc_ref.update raises for an item the store
\* does not hold; otherwise the item's metadata and annotations are written
\* to the index under the item id; an index error is caught.
ShelfPatch(uid, item_id, storeUp, up) ==
  /\ shelf.patches < MaxPosts
  /\ IF storeUp /\ item_id \in DOMAIN shelf.items /\ shelf.items[item_id].owner = uid
     THEN /\ IF manager /\ up
             THEN ShelfIndexWrite(item_id, PatchBody(uid, shelf.items[item_id]))
             ELSE ShelfIndexUntouched
          /\ lastOp' = [op |-> "patch", id |-> item_id, response |-> 200]
     ELSE /\ ShelfIndexUntouched
          /\ lastOp' = [op |-> "patch", id |-> item_id, response |-> 500]
  /\ shelf' = [shelf EXCEPT !.patches = @ + 1]
  /\ UNCHANGED <<ragVars, syncVars, gemini, memory>>

\* DELETE /bookshelf/<item_id>: the item leaves the store, then
\* delete_document(item_id) removes the index entry of that id. `deleted`
\* records the items whose DELETE answered 200, `answered` those whose
\* delete request the index service answered.
ShelfDelete(uid, item_id, storeUp, up) ==
  /\ item_id \notin shelf.deleted
  /\ IF storeUp
     THEN /\ shelf' = [shelf EXCEPT
                !.items = IF item_id \in DOMAIN @ /\ @[item_id].owner = uid
                          THEN Remove(@, item_id) ELSE @,
                !.deleted = @ \cup {item_id},
                !.answered = IF manager /\ up THEN @ \cup {item_id} ELSE @]
          /\ indexDocs' = IF manager /\ ~ClientDeleteRaises(item_id, up)
                          THEN Remove(indexDocs, item_id) ELSE indexDocs
          /\ lastOp' = [op |-> "shelf_delete", id |-> item_id, response |-> 200]
     ELSE /\ UNCHANGED <<shelf, indexDocs>>
          /\ lastOp' = [op |-> "shelf_delete", id |-> item_id, response |-> 500]
  /\ lastIndexed' = None
  /\ UNCHANGED <<manager, indexExists, mapping, searchable>>
  /\ UNCHANGED <<ragVars, syncVars, gemini, memory>>

ShelfItemIds == {"d1"} \cup {NewIds[k] : k \in 1..MaxPosts}

\* A running backend: the store holds d1 and d3, the index their chunks as
\* sync_data wrote them.
InitShelf ==
  /\ InitRag
  /\ calls = <<>>
  /\ manager = TRUE
  /\ indexExists = TRUE
  /\ mapping = "dynamic"
  /\ indexDocs = AllBodies
  /\ searchable = AllBodies
  /\ lastIndexed = None
  /\ lastOp = [op |-> "none"]
  /\ sync = NoSync
  /\ shelf = [items |-> [d \in {"d1", "d3"} |->
                           [owner |-> Item(d).owner, fileType |-> Item(d).fileType,
                            title |-> <<PageChar(d, 0)>>]],
              tasks |-> {}, posted |-> 0, patches |-> 0, deleted |-> {},
              answered |-> {}]
  /\ gemini = NoGemini
  /\ memory = NoMemory

NextShelf ==
  \/ \E kind \in PostKinds, storeUp \in BOOLEAN : ShelfPost(ShelfUser, kind, storeUp)
  \/ \E task \in shelf.tasks, reachable \in BOOLEAN, up \in BOOLEAN :
       IndexTask(task, reachable, up)
  \/ \E item_id \in ShelfItemIds, storeUp \in BOOLEAN, up \in BOOLEAN :
       ShelfPatch(ShelfUser, item_id, storeUp, up)
  \/ \E item_id \in ShelfItemIds, storeUp \in BOOLEAN, up \in BOOLEAN :
       ShelfDelete(ShelfUser, item_id, storeUp, up)

SpecShelf == InitShelf /\ [][NextShelf]_vars


\* The ids a content search for `query` by `user_id` matches.
Found(m, docs, query, user_id) == Matching(m, docs, query, user_id)

\* C26: a PATCH of an item does not overwrite indexed content: every index
\* entry that held content before the PATCH holds the same content after it,
\* and a content search that found the entry before still finds it.
C26_PatchKeepsIndexedContent ==
  [][lastOp'.op = "patch" =>
       \A id \in DOMAIN indexDocs :
          indexDocs[id].content # <<>> =>
            /\ id \in DOMAIN indexDocs'
            /\ indexDocs'[id].content = indexDocs[id].content
            /\ id \in Found(mapping, searchable, ShelfQuery, ShelfUser)
                 => id \in Found(mapping', searchable', ShelfQuery, ShelfUser)]_vars

\* C28: once the DELETE handler of an item has returned and no
\* background_index_task thread is left, the index holds neither the entry
\* of the item's id nor a chunk whose book_id is the item's id.
C28_DeletedItemLeavesIndex ==
  \A item_id \in shelf.deleted \cap shelf.answered :
     shelf.tasks = {} =>
        /\ item_id \notin DOMAIN indexDocs
        /\ \A id \in DOMAIN indexDocs : BookOf(id) # item_id

\* C28: the same for the entry of the item's id alone, whatever sync_data
\* left in the index.
C28_DeletedItemEntryLeavesIndex ==
  \A item_id \in shelf.deleted \cap shelf.answered :
     shelf.tasks = {} => item_id \notin DOMAIN indexDocs


\* ------------------------------------------------------------------------
\* APIKeyManager and call_gemini_with_retry of api_key_manager.py
\* ------------------------------------------------------------------------
MaxKeys == 3
MaxRetries == 2
MaxGeminiCalls == 2

\* What api_call_func(current_key) does: returns a response, raises a
\* rate-limit error ("429" in its text) or raises another error.
ApiOutcomes == {"ok", "429", "error"}

\* APIKeyManager.switch_key on `n` keys at index `i`: the index it leaves
\* and the value it returns.
next_index(n, i) == (i + 1) % n
SwitchKeyIndex(n, i) == IF n <= 1 THEN i ELSE next_index(n, i)
SwitchKeyReturns(n, i) == n > 1 /\ next_index(n, i) # i

\* call_gemini_with_retry(api_call_func, api_key_manager, max_retries) starts.
CallGemini(max_retries) ==
  /\ gemini.pc \in {"idle", "done"}
  /\ gemini.ncalls < MaxGeminiCalls
  /\ gemini' = [gemini EXCEPT !.pc = "calling", !.ncalls = @ + 1,
                              !.max_retries = max_retries, !.attempt = 0,
                              !.tried = <<>>, !.switches = <<>>, !.result = "none"]
  /\ UNCHANGED <<ragVars, indexVars, syncVars, keyVars>>

\* One pass of the retry loop: the call with the current key, and on a
\* rate-limit error switch_key().
GeminiAttempt(outcome) ==
  /\ gemini.pc = "calling"
  /\ LET n == gemini.keys
         i == gemini.current_index
         tried == Append(gemini.tried, i)
         switched == SwitchKeyReturns(n, i)
         last == gemini.attempt = gemini.max_retries
     IN gemini' =
          CASE outcome = "ok" ->
                 [gemini EXCEPT !.pc = "done", !.tried = tried, !.result = "response"]
            [] outcome = "error" ->
                 [gemini EXCEPT !.pc = "done", !.tried = tried, !.result = "error"]
            [] OTHER ->
                 [gemini EXCEPT
                    !.tried = tried,
                    !.current_index = SwitchKeyIndex(n, i),
                    !.switches = Append(@, [from |-> i, to |-> SwitchKeyIndex(n, i),
                                            returned |-> switched]),
                    !.attempt = IF switched THEN @ + 1 ELSE @,
                    !.pc = IF switched /\ ~last THEN "calling" ELSE "done",
                    !.result = IF ~switched THEN "rate_limited_all"
                               ELSE IF last THEN "last_error" ELSE "none"]
  /\ UNCHANGED <<ragVars, indexVars, syncVars, keyVars>>

\* A manager constructed over 1..MaxKeys keys, at its first key.
InitKeys ==
  /\ InitRag
  /\ calls = <<>>
  /\ manager = FALSE
  /\ indexExists = FALSE
  /\ mapping = "explicit"
  /\ indexDocs = EmptyMap
  /\ searchable = EmptyMap
  /\ lastIndexed = None
  /\ lastOp = [op |-> "none"]
  /\ sync = NoSync
  /\ shelf = NoShelf
  /\ memory = NoMemory
  /\ \E n \in 1..MaxKeys :
       gemini = [pc |-> "idle", keys |-> n, current_index |-> 0, ncalls |-> 0,
                 max_retries |-> 0, attempt |-> 0, tried |-> <<>>,
                 switches |-> <<>>, result |-> "none"]

NextKeys ==
  \/ \E max_retries \in 0..MaxRetries : CallGemini(max_retries)
  \/ \E outcome \in ApiOutcomes : GeminiAttempt(outcome)

SpecKeys == InitKeys /\ [][NextKeys]_vars

\* C27: switch_key returns True only when it moved to another key; within
\* one call_gemini_with_retry call every attempt uses a key that no earlier
\* attempt of the call used, api_call_func is called at most max_retries + 1
\* times, and an error that is not a rate limit returns without a switch.
C27_RetriesUseFreshKeys ==
  /\ \A k \in 1..Len(gemini.switches) :
        gemini.switches[k].returned => gemini.switches[k].to # gemini.switches[k].from
  /\ \A a, b \in 1..Len(gemini.tried) : a # b => gemini.tried[a] # gemini.tried[b]
  /\ Len(gemini.tried) <= gemini.max_retries + 1
  /\ gemini.result = "error" => Len(gemini.switches) = Len(gemini.tried) - 1

\* C27: the parts of it that do not depend on the number of keys.
C27_SwitchMovesAndCallsBounded ==
  /\ \A k \in 1..Len(gemini.switches) :
        gemini.switches[k].returned => gemini.switches[k].to # gemini.switches[k].from
  /\ Len(gemini.tried) <= gemini.max_retries + 1
  /\ gemini.result = "error" => Len(gemini.switches) = Len(gemini.tried) - 1


\* ------------------------------------------------------------------------
\* StudentMemoryEngine of memory_engine.py: the feedback history
\* ------------------------------------------------------------------------
MaxUpdates == 2

\* `feedback_history[-20:]`: the history keeps its last 20 entries.
history_limit == 20

\* The stored feedback_history as earlier runs left it: entry 0 stands for a
\* snapshot of an earlier run, entry t > 0 for the snapshot of thread t.
OldHistory(n) == [k \in 1..n |-> 0]
InitialHistories == {OldHistory(n) : n \in {0, 1, history_limit - 1, history_limit}}

\* The last `n` entries of a list.
LastEntries(s, n) == IF Len(s) > n THEN SubSeq(s, Len(s) - n + 1, Len(s)) ELSE s

\* update_async(uid): a thread running generate_updated_profile is started.
UpdateAsync ==
  /\ memory.started < MaxUpdates
  /\ memory' = [memory EXCEPT
        !.started = @ + 1,
        !.threads = Append(@, [pc |-> "llm", seen |-> <<>>])]
  /\ UNCHANGED <<ragVars, indexVars, syncVars, memoryVars>>

\* aggregate_student_data and the GroqChat call: `ok` when the answer holds
\* a JSON object; otherwise the run returns None.
ProfileGenerate(t, ok) ==
  /\ t \in 1..Len(memory.threads)
  /\ memory.threads[t].pc = "llm"
  /\ memory' = [memory EXCEPT !.threads[t].pc = IF ok THEN "read" ELSE "failed"]
  /\ UNCHANGED <<ragVars, indexVars, syncVars, memoryVars>>

\* memory_ref.get(): the thread takes the stored feedback_history.
ProfileRead(t, storeUp) ==
  /\ t \in 1..Len(memory.threads)
  /\ memory.threads[t].pc = "read"
  /\ memory' = IF storeUp
               THEN [memory EXCEPT !.threads[t] = [pc |-> "write", seen |-> memory.history]]
               ELSE [memory EXCEPT !.threads[t].pc = "failed"]
  /\ UNCHANGED <<ragVars, indexVars, syncVars, memoryVars>>

\* The snapshot is appended to the list the thread read, the list is cut to
\* its last 20 entries and memory_ref.set(profile_json, merge=True) stores it.
ProfileWrite(t, storeUp) ==
  /\ t \in 1..Len(memory.threads)
  /\ memory.threads[t].pc = "write"
  /\ memory' = IF storeUp
               THEN [memory EXCEPT
                       !.history = LastEntries(Append(memory.threads[t].seen, t), history_limit),
                       !.threads[t].pc = "done"]
               ELSE [memory EXCEPT !.threads[t].pc = "failed"]
  /\ UNCHANGED <<ragVars, indexVars, syncVars, memoryVars>>

InitMemory ==
  /\ InitRag
  /\ calls = <<>>
  /\ manager = FALSE
  /\ indexExists = FALSE
  /\ mapping = "explicit"
  /\ indexDocs = EmptyMap
  /\ searchable = EmptyMap
  /\ lastIndexed = None
  /\ lastOp = [op |-> "none"]
  /\ sync = NoSync
  /\ shelf = NoShelf
  /\ gemini = NoGemini
  /\ \E h \in InitialHistories :
       memory = [pc |-> "run", history |-> h, initial |-> Len(h),
                 started |-> 0, threads |-> <<>>]

NextMemory ==
  \/ UpdateAsync
  \/ \E t \in 1..MaxUpdates, ok \in BOOLEAN : ProfileGenerate(t, ok)
  \/ \E t \in 1..MaxUpdates, storeUp \in BOOLEAN : ProfileRead(t, storeUp)
  \/ \E t \in 1..MaxUpdates, storeUp \in BOOLEAN : ProfileWrite(t, storeUp)

SpecMemory == InitMemory /\ [][NextMemory]_vars

\* The threads whose generate_updated_profile run was successful.
Successful == {t \in 1..Len(memory.threads) : memory.threads[t].pc = "done"}

\* C30: every successful generate_updated_profile run has added exactly one
\* snapshot to the stored feedback_history, which holds at most 20 entries:
\* the snapshot of every successful thread is in the stored list.
C30_EverySnapshotKept ==
  /\ Len(memory.history) <= history_limit
  /\ \A t \in Successful : t \in SeqToSet(memory.history)
  /\ Len(memory.history) = Min(history_limit, memory.initial + Cardinality(Successful))

\* C30: the stored history never holds more than 20 entries.
C30_AtMostTwentyEntries == Len(memory.history) <= history_limit

====
